---- MODULE Spec2Model ----
(***************************************************************************)
(* Model of src/app.py: a Streamlit dashboard script.  One pass is one run *)
(* of the script from top to bottom; Streamlit runs it again on every user *)
(* interaction.  The only state that survives a pass is the st.cache_data  *)
(* store of load_data and the input file itself.                           *)
(*                                                                         *)
(* Encoding of values.  A cell is a record [k, s, n]:                      *)
(*   k = "na"   a missing value (NaN)                                      *)
(*   k = "str"  a text, s = its sequence of tokens; the token " " is a     *)
(*              whitespace character, "." the decimal point, a digit is a  *)
(*              one-character token, any other token is a run of           *)
(*              non-blank characters                                       *)
(*   k = "num"  a number, n = the number in tenths (47 is 4.7)             *)
(***************************************************************************)
EXTENDS Integers, Sequences, FiniteSets, TLC

VARIABLES file, cache, reads, pc, df, missing, opts, sel, df_f, kpi, csv,
          perf_counts, outcome, rendered

vars == <<file, cache, reads, pc, df, missing, opts, sel, df_f, kpi, csv,
          perf_counts, outcome, rendered>>

(***************************************************************************)
(* file         the input file: whether pd.read_csv can read it (FALSE: it *)
(*              is absent, unreadable or malformed and read_csv raises),   *)
(*              its header and its lines                                   *)
(* cache        the st.cache_data store of load_data, path -> table        *)
(* reads        the number of executions of pd.read_csv                    *)
(* pc           the section of the script the pass is at                   *)
(* df .. perf_counts   the script's variables of the same names; opts are  *)
(*              the widgets' options and bounds, sel their values, kpi the *)
(*              metrics of section 7                                       *)
(* outcome      how the pass ended: completed, stopped by st.stop() after  *)
(*              the schema error or the empty-view warning, or the         *)
(*              exception that ended it                                    *)
(* rendered     the elements the pass has put on the page, in order        *)
(***************************************************************************)

(* ------------------------------ bounds -------------------------------- *)

MaxRows == 2

MaxReads == 2

(* ------------------------------ values -------------------------------- *)

NA == [k |-> "na", s |-> <<>>, n |-> 0]

Str(t) == [k |-> "str", s |-> t, n |-> 0]

Num(v) == [k |-> "num", s |-> <<>>, n |-> v]

IsNA(c) == c.k = "na"

None == [cols |-> <<>>, rows |-> <<>>, none |-> TRUE]

Table(cols, rows) == [cols |-> cols, rows |-> rows, none |-> FALSE]

Range(q) == {q[i] : i \in 1..Len(q)}

DataPath == "Employee_data.csv"

AllCols ==
    <<"id_employee", "name_employee", "gender", "marital_status", "department",
      "position", "performance_score", "performance_score_desc", "salary",
      "average_work_hours", "age", "satisfaction_level", "absences",
      "employment_status">>

required_cols ==
    <<"gender", "performance_score", "marital_status", "average_work_hours",
      "age", "salary">>

NumericCols == <<"performance_score", "salary", "average_work_hours", "age">>

(* ---------------------- text and number conversion --------------------- *)

RECURSIVE LStrip(_)
LStrip(t) == IF t # <<>> /\ Head(t) = " " THEN LStrip(Tail(t)) ELSE t

RECURSIVE RStrip(_)
RStrip(t) ==
    IF t # <<>> /\ t[Len(t)] = " " THEN RStrip(SubSeq(t, 1, Len(t) - 1)) ELSE t

\* str.strip(): leading and trailing whitespace removed.
Strip(t) == RStrip(LStrip(t))

\* astype(str) on one cell: NaN becomes the three-letter text "nan".
AsTypeStr(c) ==
    CASE c.k = "na" -> Str(<<"nan">>)
      [] c.k = "str" -> c
      [] OTHER -> c

\* .astype(str).str.strip() on one cell.
CleanText(c) == Str(Strip(AsTypeStr(c).s))

Digits == <<"0", "1", "2", "3", "4", "5", "6", "7", "8", "9">>

IsDigit(ch) == ch \in Range(Digits)

DigitVal(ch) == (CHOOSE i \in 1..10 : Digits[i] = ch) - 1

\* pd.to_numeric(..., errors="coerce") on one cell.  The literals of the
\* model are "d" and "d.d"; surrounding blanks are accepted, anything else
\* is coerced to NaN.
ToNumeric(c) ==
    IF c.k = "num" THEN c
    ELSE IF c.k = "na" THEN NA
    ELSE LET t == Strip(c.s) IN
         IF Len(t) = 1 /\ IsDigit(t[1]) THEN Num(10 * DigitVal(t[1]))
         ELSE IF Len(t) = 3 /\ IsDigit(t[1]) /\ t[2] = "." /\ IsDigit(t[3])
              THEN Num(10 * DigitVal(t[1]) + DigitVal(t[3]))
              ELSE NA

\* int(x) of a float: truncation toward zero.
IntTrunc(v) == IF v >= 0 THEN v \div 10 ELSE -((-v) \div 10)

(* ------------------------------ load_data ------------------------------ *)

HasCol(t, c) == c \in Range(t.cols)

\* df[col] = f(df[col]): a KeyError when the column is absent is decided by
\* the caller; here the column is present.
MapCol(t, col, F(_)) ==
    Table(t.cols,
          [i \in 1..Len(t.rows) |->
              [c \in DOMAIN t.rows[i] |->
                  IF c = col THEN F(t.rows[i][c]) ELSE t.rows[i][c]]])

\* The columns load_data indexes, in the order it indexes them.
LoadTouched ==
    <<"department", "gender", "performance_score", "salary",
      "average_work_hours", "age">>

LoadKeyError(t) == \E i \in 1..Len(LoadTouched) : ~HasCol(t, LoadTouched[i])

RECURSIVE CoerceAll(_, _)
CoerceAll(t, colsLeft) ==
    IF colsLeft = <<>> THEN t
    ELSE CoerceAll(MapCol(t, Head(colsLeft), ToNumeric), Tail(colsLeft))

\* The body of load_data on a table that has every column it indexes.
load_data(t) ==
    CoerceAll(MapCol(MapCol(t, "department", CleanText), "gender", CleanText),
              NumericCols)

\* A load_data without the cache decorator: every call misses.
CacheHit_uncached(store, path) == FALSE

\* The st.cache_data store of load_data: a map from the path argument to the
\* table the first successful call returned.
CacheHit(store, path) == path \in DOMAIN store

(* --------------------------- section 6: controls ----------------------- *)

Column(t, col) == [i \in 1..Len(t.rows) |-> t.rows[i][col]]

\* sorted(df[col].dropna().unique().tolist()): the distinct present values.
\* The list is sorted and duplicate-free, so it is modelled as the set.
Options(t, col) ==
    {Column(t, col)[i].s : i \in {j \in 1..Len(t.rows) : ~IsNA(Column(t, col)[j])}}

PresentScores(t) ==
    {Column(t, "performance_score")[i].n :
        i \in {j \in 1..Len(t.rows) : ~IsNA(Column(t, "performance_score")[j])}}

SetMin(S) == CHOOSE x \in S : \A y \in S : x <= y

SetMax(S) == CHOOSE x \in S : \A y \in S : x >= y

\* min_score = int(np.nanmin(df["performance_score"]))
min_score(t) == IntTrunc(SetMin(PresentScores(t)))

\* max_score = int(np.nanmax(df["performance_score"]))
max_score(t) == IntTrunc(SetMax(PresentScores(t)))

\* The values the three widgets can return for a table: any subset of the
\* offered options, any integer pair lo <= hi within the slider's bounds.
Selections(t) ==
    {x \in [gender : SUBSET Options(t, "gender"),
            lo : min_score(t)..max_score(t),
            hi : min_score(t)..max_score(t),
            marital : SUBSET Options(t, "marital_status")] : x.lo <= x.hi}

(* --------------------------- section 6: filter ------------------------- *)

\* Series.isin(values) on one cell: NaN is in no list of texts.
IsIn(c, values) == c.k = "str" /\ c.s \in values

\* between(..., inclusive="left"): the upper bound excluded.
Between_exclusive(c, lo, hi) == c.k = "num" /\ 10 * lo <= c.n /\ c.n < 10 * hi

\* Series.between(lo, hi) on one cell: inclusive, NaN is in no range.
Between(c, lo, hi) == c.k = "num" /\ 10 * lo <= c.n /\ c.n <= 10 * hi

\* The boolean mask of lines 96-98.
Mask(t, s) ==
    [i \in 1..Len(t.rows) |->
        /\ IsIn(t.rows[i]["gender"], s.gender)
        /\ Between(t.rows[i]["performance_score"], s.lo, s.hi)
        /\ IsIn(t.rows[i]["marital_status"], s.marital)]

\* df[mask]: the rows whose mask is true, in order, each keeping its index
\* label.
RECURSIVE BoolIndex(_, _, _)
BoolIndex(t, mask, i) ==
    IF i > Len(t.rows) THEN <<>>
    ELSE (IF mask[i] THEN <<[idx |-> i, row |-> t.rows[i]]>> ELSE <<>>)
         \o BoolIndex(t, mask, i + 1)

\* df_f = df[...].copy()
Filter(t, s) == BoolIndex(t, Mask(t, s), 1)

\* A filter applied in place (df = df[...]): df loses the rows filtered out.
DfAfterFilter_inplace(t, s) ==
    Table(t.cols, [k \in 1..Len(Filter(t, s)) |-> Filter(t, s)[k].row])

\* What the filter statement leaves in df: boolean indexing builds a new
\* frame and .copy() detaches it, so df is what it was.
DfAfterFilter(t, s) == t

\* The empty check left out: the pass never stops on an empty view.
IsEmptyView_never(v) == FALSE

\* len(df_f) == 0
IsEmptyView(v) == Len(v) = 0

(* --------------------------- section 7: KPIs --------------------------- *)

RECURSIVE SumPresent(_, _)
SumPresent(v, col) ==
    IF v = <<>> THEN [sum |-> 0, n |-> 0]
    ELSE LET c == ToNumeric(Head(v).row[col])
             r == SumPresent(Tail(v), col)
         IN  IF IsNA(c) THEN r ELSE [sum |-> r.sum + c.n, n |-> r.n + 1]

\* Series.mean(): the mean of the present values, kept as the pair
\* (sum in tenths, number of present values); n = 0 stands for NaN.
Mean(v, col) == SumPresent(v, col)

\* The columns section 7 indexes.
KpiCols == <<"performance_score", "satisfaction_level", "absences">>

(* ------------------------ section 9: table, export --------------------- *)

\* The columns st.dataframe selects.
DetailCols ==
    <<"id_employee", "name_employee", "gender", "marital_status", "department",
      "position", "performance_score", "salary", "average_work_hours", "age",
      "employment_status">>

AnyAbsent(t, wanted) == \E i \in 1..Len(wanted) : ~HasCol(t, wanted[i])

\* The dtype of a coerced column is float64 when it holds a NaN or a
\* fractional value, int64 otherwise; the view inherits it from df.
IsFloatCol(t, col) ==
    \E i \in 1..Len(t.rows) :
        LET c == t.rows[i][col] IN IsNA(c) \/ (c.k = "num" /\ c.n % 10 # 0)

\* One field of the CSV text: NaN is written as the empty field, a text as
\* itself, a number as an integer or with one decimal by the column's dtype.
CsvField(c, isFloat) ==
    CASE c.k = "na" -> <<>>
      [] c.k = "str" -> c.s
      [] OTHER -> IF isFloat
                  THEN <<ToString(c.n \div 10), ".", ToString(c.n % 10)>>
                  ELSE <<ToString(c.n \div 10)>>

CsvRow(t, row) ==
    [j \in 1..Len(t.cols) |-> CsvField(row[t.cols[j]], IsFloatCol(t, t.cols[j]))]

\* An export of the loaded table instead of the view.
to_csv_unfiltered(t, v) ==
    [header |-> t.cols, lines |-> [i \in 1..Len(t.rows) |-> CsvRow(t, t.rows[i])]]

\* df_f.to_csv(index=False): the header line, then one line per row of the
\* view, in the view's order, without the index column.
to_csv(t, v) ==
    [header |-> t.cols, lines |-> [i \in 1..Len(v) |-> CsvRow(t, v[i].row)]]

NoCsv == [header |-> <<>>, lines |-> <<>>]

(* ------------------------- section 10: conclusions --------------------- *)

\* value_counts drops NaN: the distinct present values of the column.
Present(v, col) == {v[i].row[col].s : i \in {j \in 1..Len(v) : ~IsNA(v[j].row[col])}}

Count(v, col, x) ==
    Cardinality({i \in 1..Len(v) : ~IsNA(v[i].row[col]) /\ v[i].row[col].s = x})

\* A normalisation by the number of rows, missing values included.
NormTotal_allrows(v, col) == Len(v)

\* The number value_counts(normalize=True) divides by: the present values.
NormTotal(v, col) == Cardinality({i \in 1..Len(v) : ~IsNA(v[i].row[col])})

\* The orders value_counts may return: the distinct values by descending
\* count; the order among equal counts is not specified.
CountOrders(v, col) ==
    {q \in [1..Cardinality(Present(v, col)) -> Present(v, col)] :
        /\ \A i, j \in DOMAIN q : i # j => q[i] # q[j]
        /\ \A i, j \in DOMAIN q : i < j => Count(v, col, q[i]) >= Count(v, col, q[j])}

\* value_counts(normalize=True) * 100 in the order q: each share is kept as
\* the fraction num/den.
value_counts(v, col, q) ==
    [i \in DOMAIN q |->
        [label |-> q[i], num |-> 100 * Count(v, col, q[i]), den |-> NormTotal(v, col)]]

(* ------------------------------ input files ---------------------------- *)

Tok(x) == Str(<<x>>)

\* One line of the input file: gender, performance_score, marital_status,
\* performance_score_desc and salary as given, the other fields fixed.
RawRow(g, ps, ms, desc, sal) ==
    [c \in Range(AllCols) |->
        CASE c = "gender" -> g
          [] c = "performance_score" -> ps
          [] c = "marital_status" -> ms
          [] c = "performance_score_desc" -> desc
          [] c = "salary" -> sal
          [] c = "department" -> Str(<<" ", "IT", " ">>)
          [] c = "average_work_hours" -> Tok("8")
          [] c = "age" -> Tok("9")
          [] c = "satisfaction_level" -> Tok("3")
          [] c = "absences" -> Tok("1")
          [] OTHER -> Tok(c)]

\* The lines input files are made of: a gender with a trailing blank, a
\* fractional score, a missing gender, a non-numeric score and salary, a
\* missing marital status, a missing score.
RowPool ==
    { RawRow(Str(<<"M", " ">>), Tok("2"), Tok("Single"), Tok("Good"), Tok("5")),
      RawRow(Tok("F"), Str(<<"4", ".", "7">>), Tok("Married"), Tok("Low"), Tok("6")),
      RawRow(NA, Tok("3"), Tok("Single"), NA, Tok("5")),
      RawRow(Tok("M"), Tok("x"), Tok("Married"), Tok("Good"), Tok("x")),
      RawRow(Tok("F"), Tok("2"), NA, Tok("Low"), NA),
      RawRow(Tok("M"), NA, Tok("Single"), Tok("Good"), Tok("6")) }

\* The sets of columns an input file may lack.
DropChoices ==
    { {}, {"marital_status"}, {"gender"}, {"salary", "age"}, {"department"},
      {"satisfaction_level"}, {"performance_score_desc"}, {"employment_status"} }

FileOf(rows, drop, readable) ==
    [readable |-> readable,
     cols |-> SelectSeq(AllCols, LAMBDA c : c \notin drop),
     rows |-> [i \in 1..Len(rows) |->
                  [c \in Range(AllCols) \ drop |-> rows[i][c]]]]

Files ==
    {FileOf(rows, drop, readable) :
        rows \in UNION {[1..n -> RowPool] : n \in 0..MaxRows},
        drop \in DropChoices,
        readable \in BOOLEAN}

\* pd.read_csv(path) on a readable file: the header and the fields of each
\* line, an empty field read as NaN.
ReadCsv(f) == Table(f.cols, f.rows)

(* -------------------------------- passes ------------------------------- *)

NoOpts == [gender |-> {}, min |-> 0, max |-> 0, marital |-> {}]

NoSel == [gender |-> {}, lo |-> 0, hi |-> 0, marital |-> {}]

NoKpi == [n |-> 0, perf |-> [sum |-> 0, n |-> 0]]

Init ==
    /\ file \in Files
    /\ cache = <<>>
    /\ reads = 0
    /\ pc = "load"
    /\ df = None
    /\ missing = <<>>
    /\ opts = NoOpts
    /\ sel = NoSel
    /\ df_f = <<>>
    /\ kpi = NoKpi
    /\ csv = NoCsv
    /\ perf_counts = <<>>
    /\ outcome = "running"
    /\ rendered = <<>>

\* An uncaught exception ends the pass; Streamlit shows the traceback.
Raise(exc) ==
    /\ outcome' = exc
    /\ pc' = "end"

\* Section 5, lines 42-56: df = load_data("Employee_data.csv") under
\* st.cache_data.
Load ==
    /\ pc = "load"
    /\ CacheHit(cache, DataPath) \/ reads < MaxReads
    /\ IF CacheHit(cache, DataPath)
       THEN /\ df' = cache[DataPath]
            /\ pc' = "validate"
            /\ UNCHANGED <<cache, reads, outcome>>
       ELSE /\ reads' = reads + 1
            /\ IF ~file.readable
               THEN Raise("LoadError") /\ UNCHANGED <<cache, df>>
               ELSE IF LoadKeyError(ReadCsv(file))
               THEN Raise("KeyError") /\ UNCHANGED <<cache, df>>
               ELSE /\ df' = load_data(ReadCsv(file))
                    /\ cache' = (DataPath :> load_data(ReadCsv(file)))
                    /\ pc' = "validate"
                    /\ UNCHANGED outcome
    /\ UNCHANGED <<file, missing, opts, sel, df_f, kpi, csv, perf_counts, rendered>>

\* missing = [c for c in required_cols if c not in df.columns]
MissingCols(t) == SelectSeq(required_cols, LAMBDA c : ~HasCol(t, c))

\* Section 5, lines 58-63: the required-column validation.
Validate ==
    /\ pc = "validate"
    /\ missing' = MissingCols(df)
    /\ IF MissingCols(df) # <<>>
       THEN /\ rendered' = Append(rendered, "error")
            /\ outcome' = "stopped_schema"
            /\ pc' = "end"
       ELSE /\ pc' = "sidebar"
            /\ UNCHANGED <<rendered, outcome>>
    /\ UNCHANGED <<file, cache, reads, df, opts, sel, df_f, kpi, csv, perf_counts>>

\* Section 6, lines 69-105: the three controls, the filter, the empty check.
\* np.nanmin of a column without a present value is NaN (or raises on an
\* empty column), and int(NaN) raises ValueError.
Sidebar ==
    /\ pc = "sidebar"
    /\ IF PresentScores(df) = {}
       THEN /\ Raise("ValueError")
            /\ UNCHANGED <<df, opts, sel, df_f, rendered>>
       ELSE \E s \in Selections(df) :
            /\ opts' = [gender |-> Options(df, "gender"), min |-> min_score(df),
                        max |-> max_score(df),
                        marital |-> Options(df, "marital_status")]
            /\ sel' = s
            /\ df_f' = Filter(df, s)
            /\ df' = DfAfterFilter(df, s)
            /\ IF IsEmptyView(Filter(df, s))
               THEN /\ rendered' = rendered \o <<"count", "warning">>
                    /\ outcome' = "stopped_empty"
                    /\ pc' = "end"
               ELSE /\ rendered' = Append(rendered, "count")
                    /\ pc' = "kpis"
                    /\ UNCHANGED outcome
    /\ UNCHANGED <<file, cache, reads, missing, kpi, csv, perf_counts>>

\* Section 7, lines 111-115: the four metrics.
Kpis ==
    /\ pc = "kpis"
    /\ IF AnyAbsent(df, KpiCols)
       THEN Raise("KeyError") /\ UNCHANGED <<kpi, rendered>>
       ELSE /\ kpi' = [n |-> Len(df_f), perf |-> Mean(df_f, "performance_score")]
            /\ rendered' = Append(rendered, "metrics")
            /\ pc' = "charts"
            /\ UNCHANGED outcome
    /\ UNCHANGED <<file, cache, reads, df, missing, opts, sel, df_f, csv, perf_counts>>

\* The columns section 8 indexes.
ChartCols == <<"performance_score", "gender", "average_work_hours", "age", "salary">>

\* Section 8, lines 121-168: the four charts.
Charts ==
    /\ pc = "charts"
    /\ IF AnyAbsent(df, ChartCols)
       THEN Raise("KeyError") /\ UNCHANGED rendered
       ELSE /\ rendered' = Append(rendered, "charts")
            /\ pc' = "table"
            /\ UNCHANGED outcome
    /\ UNCHANGED <<file, cache, reads, df, missing, opts, sel, df_f, kpi, csv,
                   perf_counts>>

\* Section 9, lines 174-182: the detail table and the CSV download.
DataTable ==
    /\ pc = "table"
    /\ IF AnyAbsent(df, DetailCols)
       THEN Raise("KeyError") /\ UNCHANGED <<csv, rendered>>
       ELSE /\ csv' = to_csv(df, df_f)
            /\ rendered' = rendered \o <<"dataframe", "download">>
            /\ pc' = "conclusions"
            /\ UNCHANGED outcome
    /\ UNCHANGED <<file, cache, reads, df, missing, opts, sel, df_f, kpi, perf_counts>>

\* Section 10, lines 188-204: the conclusions text.
Conclusions ==
    /\ pc = "conclusions"
    /\ IF ~HasCol(df, "performance_score_desc")
       THEN Raise("KeyError") /\ UNCHANGED <<perf_counts, rendered>>
       ELSE IF Present(df_f, "performance_score_desc") = {}
       THEN Raise("IndexError") /\ UNCHANGED <<perf_counts, rendered>>
       ELSE \E q \in CountOrders(df_f, "performance_score_desc") :
            /\ perf_counts' = value_counts(df_f, "performance_score_desc", q)
            /\ rendered' = Append(rendered, "conclusions")
            /\ outcome' = "completed"
            /\ pc' = "end"
    /\ UNCHANGED <<file, cache, reads, df, missing, opts, sel, df_f, kpi, csv>>

\* A user interaction: Streamlit runs the script again from the top; only the
\* cache store outlives the pass.
Rerun ==
    /\ pc = "end"
    /\ pc' = "load"
    /\ df' = None
    /\ missing' = <<>>
    /\ opts' = NoOpts
    /\ sel' = NoSel
    /\ df_f' = <<>>
    /\ kpi' = NoKpi
    /\ csv' = NoCsv
    /\ perf_counts' = <<>>
    /\ outcome' = "running"
    /\ rendered' = <<>>
    /\ UNCHANGED <<file, cache, reads>>

\* Between passes the environment makes the input file unreadable (removed,
\* or overwritten with a malformed one), or restores it.
FileChange ==
    /\ pc = "end"
    /\ file' = [file EXCEPT !.readable = ~@]
    /\ UNCHANGED <<cache, reads, pc, df, missing, opts, sel, df_f, kpi, csv,
                   perf_counts, outcome, rendered>>

Next ==
    \/ Load
    \/ Validate
    \/ Sidebar
    \/ Kpis
    \/ Charts
    \/ DataTable
    \/ Conclusions
    \/ Rerun
    \/ FileChange

Spec == Init /\ [][Next]_vars

(* ------------------ input files for the value counts ------------------- *)

MaxCountRows == 4

\* Lines with every filtered field present, differing in
\* performance_score_desc (one of them without it) and in the score.
CountPool ==
    { RawRow(Tok("M"), Tok("2"), Tok("Single"), Tok("Good"), Tok("5")),
      RawRow(Tok("M"), Tok("2"), Tok("Single"), Tok("Low"), Tok("5")),
      RawRow(Tok("M"), Tok("3"), Tok("Single"), Tok("Mid"), Tok("5")),
      RawRow(Tok("M"), Tok("3"), Tok("Single"), NA, Tok("5")) }

InitCounts ==
    /\ file \in {FileOf(rows, {}, TRUE) :
                    rows \in UNION {[1..n -> CountPool] : n \in 0..MaxCountRows}}
    /\ cache = <<>>
    /\ reads = 0
    /\ pc = "load"
    /\ df = None
    /\ missing = <<>>
    /\ opts = NoOpts
    /\ sel = NoSel
    /\ df_f = <<>>
    /\ kpi = NoKpi
    /\ csv = NoCsv
    /\ perf_counts = <<>>
    /\ outcome = "running"
    /\ rendered = <<>>

SpecCounts == InitCounts /\ [][Next]_vars

(* ------------------------------- claims -------------------------------- *)

\* The filter statement has run in this pass.
Filtered == "count" \in Range(rendered)

\* The inclusion rule of the specification, stated on one record.
Satisfies(row, s) ==
    /\ row["gender"].k = "str" /\ row["gender"].s \in s.gender
    /\ row["performance_score"].k = "num"
    /\ 10 * s.lo <= row["performance_score"].n
    /\ row["performance_score"].n <= 10 * s.hi
    /\ row["marital_status"].k = "str" /\ row["marital_status"].s \in s.marital

ViewIdx == {df_f[k].idx : k \in 1..Len(df_f)}

\* C1: once the filter has run, the view holds exactly the records of the
\* loaded table that satisfy the three predicates at once: each row of the
\* view is a row of the table that satisfies them, each row of the table is
\* in the view if and only if it satisfies them, and no row is in it twice.
C1_ViewIsExactlyTheMatches ==
    Filtered =>
        /\ \A k \in 1..Len(df_f) :
              /\ df_f[k].idx \in 1..Len(df.rows)
              /\ df_f[k].row = df.rows[df_f[k].idx]
              /\ Satisfies(df_f[k].row, sel)
        /\ \A i \in 1..Len(df.rows) : Satisfies(df.rows[i], sel) <=> i \in ViewIdx
        /\ Cardinality(ViewIdx) = Len(df_f)

\* C1 witness: a view that keeps a row and leaves out a row whose three
\* fields are all present.
C1_Witness ==
    /\ Filtered
    /\ Len(df_f) >= 1
    /\ \E i \in 1..Len(df.rows) :
          /\ i \notin ViewIdx
          /\ df.rows[i]["gender"].k = "str"
          /\ df.rows[i]["performance_score"].k = "num"
          /\ df.rows[i]["marital_status"].k = "str"

\* C2: a record whose gender, performance_score or marital_status is missing
\* in the input file is never in the filtered view.
C2_MissingNeverInView ==
    Filtered =>
        \A k \in 1..Len(df_f) :
            /\ ~IsNA(file.rows[df_f[k].idx]["gender"])
            /\ ~IsNA(file.rows[df_f[k].idx]["performance_score"])
            /\ ~IsNA(file.rows[df_f[k].idx]["marital_status"])

\* The widgets hold their defaults: the full slider range, every option.
FullSelection ==
    /\ sel.gender = opts.gender
    /\ sel.lo = opts.min
    /\ sel.hi = opts.max
    /\ sel.marital = opts.marital

\* C3: with the full score range and every gender and marital status
\* selected, the view is the loaded table minus the rows with a missing
\* gender, performance_score or marital_status.
C3_FullSelectionKeepsAll ==
    (Filtered /\ FullSelection) =>
        \A i \in 1..Len(df.rows) :
            i \in ViewIdx <=>
                /\ ~IsNA(df.rows[i]["gender"])
                /\ ~IsNA(df.rows[i]["performance_score"])
                /\ ~IsNA(df.rows[i]["marital_status"])

\* The required columns the input file lacks, in required_cols order.
FileLacks == SelectSeq(required_cols, LAMBDA c : c \notin Range(file.cols))

\* C4: a pass over a readable input file that lacks required columns ends
\* in the schema error that lists exactly those columns, and nothing else is
\* rendered.
C4_SchemaErrorOnMissing ==
    (pc = "end" /\ outcome # "LoadError" /\ FileLacks # <<>>) =>
        /\ outcome = "stopped_schema"
        /\ missing = FileLacks
        /\ rendered = <<"error">>

AfterFilterSteps == {"metrics", "charts", "dataframe", "download", "conclusions"}

\* C5: a pass whose view is empty shows the warning and stops there, and
\* every metric, chart, table, export or conclusion step runs on a view with
\* at least one record.
C5_EmptyViewStops ==
    /\ pc \in {"kpis", "charts", "table", "conclusions"} => Len(df_f) > 0
    /\ Range(rendered) \cap AfterFilterSteps # {} => Len(df_f) > 0
    /\ (Filtered /\ Len(df_f) = 0) =>
          /\ rendered = <<"count", "warning">>
          /\ outcome = "stopped_empty"
          /\ pc = "end"

\* C5 witness: the warning outcome on a table that has a row with all three
\* filtered fields present.
C5_Witness ==
    /\ outcome = "stopped_empty"
    /\ \E i \in 1..Len(df.rows) :
          /\ df.rows[i]["gender"].k = "str"
          /\ df.rows[i]["performance_score"].k = "num"
          /\ df.rows[i]["marital_status"].k = "str"

\* C6 as stated: the input file is read at most once per path.  It is
\* stated for the input files that have every column, whose loads fail only
\* when the file cannot be read.
C6_ReadAtMostOnce == Len(file.cols) = Len(AllCols) => reads <= 1

\* C6 as amended: once a load has succeeded the store holds its table for
\* good; every later load returns that table without reading the file, and
\* the load that fills the store reads the file exactly once.
C6_CachedLoadNeverRereads ==
    [][ /\ (DataPath \in DOMAIN cache) =>
              /\ reads' = reads
              /\ cache' = cache
              /\ (pc = "load" /\ pc' # "load") => df' = cache[DataPath]
        /\ (DataPath \notin DOMAIN cache /\ DataPath \in DOMAIN cache') =>
              /\ reads' = reads + 1
              /\ df' = cache'[DataPath] ]_vars

\* C6 witness: a load served from the store after the file was removed.
C6_Witness ==
    /\ pc = "validate"
    /\ ~file.readable
    /\ DataPath \in DOMAIN cache
    /\ df = cache[DataPath]

RECURSIVE SumNum(_)
SumNum(q) == IF q = <<>> THEN 0 ELSE Head(q).num + SumNum(Tail(q))

DescOf(k) == df_f[k].row["performance_score_desc"]

PresentDesc == {k \in 1..Len(df_f) : ~IsNA(DescOf(k))}

\* The percentage counts are those of the view: one entry per distinct
\* present value, each the share of that value among the present values,
\* summing to 100, in descending order, the first entry maximal.
CountsAreRight ==
    /\ perf_counts # <<>>
    /\ {perf_counts[i].label : i \in 1..Len(perf_counts)} =
           {DescOf(k).s : k \in PresentDesc}
    /\ \A i, j \in 1..Len(perf_counts) :
           i # j => perf_counts[i].label # perf_counts[j].label
    /\ \A i \in 1..Len(perf_counts) :
           /\ perf_counts[i].den = Cardinality(PresentDesc)
           /\ perf_counts[i].num =
                 100 * Cardinality({k \in PresentDesc : DescOf(k).s = perf_counts[i].label})
    /\ SumNum(perf_counts) = 100 * perf_counts[1].den
    /\ \A i, j \in 1..Len(perf_counts) :
           i < j => perf_counts[i].num >= perf_counts[j].num
    /\ \A j \in 1..Len(perf_counts) : perf_counts[1].num >= perf_counts[j].num

\* The conclusions section has been executed in this pass.
ConclusionsRan == pc = "end" /\ "download" \in Range(rendered)

C8_ExportIsTheView ==
    "download" \in Range(rendered) =>
        /\ csv.header = cache[DataPath].cols
        /\ Len(csv.lines) = Len(df_f)
        /\ \A k \in 1..Len(df_f) :
              /\ Len(csv.lines[k]) = Len(csv.header)
              /\ \A j \in 1..Len(csv.header) :
                    csv.lines[k][j] =
                        CsvField(df_f[k].row[csv.header[j]],
                                 IsFloatCol(cache[DataPath], csv.header[j]))
        /\ \A k1, k2 \in 1..Len(df_f) : k1 < k2 => df_f[k1].idx < df_f[k2].idx
        /\ \A k \in 1..Len(df_f) : df_f[k].row = cache[DataPath].rows[df_f[k].idx]
        /\ \A i \in 1..Len(cache[DataPath].rows) :
              Satisfies(cache[DataPath].rows[i], sel) <=> i \in ViewIdx

\* C8 witness: an export of some but not all rows of the table.
C8_Witness ==
    /\ "download" \in Range(rendered)
    /\ Len(csv.lines) >= 1
    /\ Len(csv.lines) < Len(df.rows)

\* C9: no step after load changes the loaded table, and no step but load
\* changes the stored one.
C9_LoadedTableUnchanged ==
    [][ /\ pc \notin {"load", "end"} => df' = df
        /\ pc # "load" => cache' = cache ]_vars

\* C9 witness: a completed pass whose view left rows out.
C9_Witness ==
    /\ outcome = "completed"
    /\ Len(df_f) < Len(df.rows)
    /\ df = cache[DataPath]

\* C10: a pass that loaded, passed the validation and has a non-empty view
\* runs to completion.
C10_ValidatedPassCompletes ==
    (pc = "end" /\ Filtered /\ Len(df_f) > 0) => outcome = "completed"

====
